---- MODULE Spec2Model ----
(***************************************************************************)
(* The touch command of win_dev_tools (src/touch/touch.cpp): argument      *)
(* dispatch, the overwrite confirmation, the configuration parser, the     *)
(* option merge and the rendering of the header written to the new file.   *)
(*                                                                         *)
(* A std::string is a sequence of one-character strings; positions in the  *)
(* operators below are 0-based as in the C++ code.                         *)
(***************************************************************************)
EXTENDS Integers, Sequences, FiniteSets, TLC

VARIABLES
  argv,             \* argv[1..argc-1]: the command-line arguments
  stdin,            \* what the terminal will deliver to scanf_s
  inpos,            \* number of characters of stdin already consumed
  today,            \* what get_current_date() returns during this run
  tgt,              \* the target path in the file system: [exists, content]
  cfg_exists,       \* whether <exe dir>\touch.conf exists
  cfg_lines,        \* its lines, as std::getline delivers them
  pc,               \* position of main()
  filename,         \* main: filename
  file_extension,   \* main: file_extension
  lineno,           \* parse_config_file: lines consumed so far
  current_type,     \* parse_config_file: current_type
  is_prepend,       \* parse_config_file: is_prepend
  is_raw,           \* parse_config_file: is_raw
  variable_map,     \* global variable_map
  type_options_map, \* global type_options_map
  raw_code,         \* global raw_code
  all_options,      \* main: all_options
  file_message,     \* main: file_message
  exit_code,        \* return value of main (NoExit while running)
  opens             \* every fopen_s / ifstream open performed, in order

vars == <<argv, stdin, inpos, today, tgt, cfg_exists, cfg_lines, pc, filename,
          file_extension, lineno, current_type, is_prepend, is_raw,
          variable_map, type_options_map, raw_code, all_options, file_message,
          exit_code, opens>>

parser_vars == <<current_type, is_prepend, is_raw, variable_map,
                 type_options_map, raw_code>>

-----------------------------------------------------------------------------
(* std::string operations used by the program                              *)

\* Number of lines a generated configuration may have.
MaxLines == 4

\* std::string::npos, (size_t)-1: larger than every length in the model.
npos == 2^30

EXIT_SUCCESS == 0

EXIT_FAILURE == 1

NoExit == 0 - 1

NL == "\n"

\* a - b computed in size_t: a negative difference wraps to a huge value.
SizeSub(a, b) == IF a >= b THEN a - b ELSE npos - (b - a) + 1

\* s.substr(pos, n) for pos <= s.size(): at most n characters from pos.
Substr(s, pos, n) ==
  LET last == IF n >= Len(s) - pos THEN Len(s) ELSE pos + n
  IN  SubSeq(s, pos + 1, last)

\* s.find(p) == 0
StartsWith(s, p) == Len(s) >= Len(p) /\ SubSeq(s, 1, Len(p)) = p

\* s.find(c, from): 0-based position of the first c at or after from, or npos.
FindChar(s, c, from) ==
  LET hits == {i \in from..(Len(s) - 1) : s[i + 1] = c}
  IN  IF hits = {} THEN npos ELSE CHOOSE i \in hits : \A j \in hits : i <= j

\* s.find_last_of(c): 0-based position of the last c, or npos.
FindLastOf(s, c) ==
  LET hits == {i \in 0..(Len(s) - 1) : s[i + 1] = c}
  IN  IF hits = {} THEN npos ELSE CHOOSE i \in hits : \A j \in hits : i >= j

IsBlankChar(c) == c = " " \/ c = "\t"

\* s.find_first_not_of(" \t")
FindFirstNotBlank(s) ==
  LET hits == {i \in 0..(Len(s) - 1) : ~IsBlankChar(s[i + 1])}
  IN  IF hits = {} THEN npos ELSE CHOOSE i \in hits : \A j \in hits : i <= j

\* s.find_last_not_of(" \t")
FindLastNotBlank(s) ==
  LET hits == {i \in 0..(Len(s) - 1) : ~IsBlankChar(s[i + 1])}
  IN  IF hits = {} THEN npos ELSE CHOOSE i \in hits : \A j \in hits : i >= j

\* s.erase(0, n): drops the first min(n, size) characters.
EraseFront(s, n) == IF n >= Len(s) THEN <<>> ELSE SubSeq(s, n + 1, Len(s))

\* s.erase(pos): keeps the first pos characters; pos is npos + 1 = 0 when
\* find_last_not_of found nothing.
EraseFrom(s, pos) == SubSeq(s, 1, pos)

\* line.erase(0, line.find_first_not_of(" \t"));
\* line.erase(line.find_last_not_of(" \t") + 1);
Trim(s) ==
  LET a == EraseFront(s, FindFirstNotBlank(s))
      l == FindLastNotBlank(a)
  IN  EraseFrom(a, IF l = npos THEN 0 ELSE l + 1)

-----------------------------------------------------------------------------
(* Tables and pure functions of the program                                *)

\* comment_str_map: file extension -> line-comment token.
comment_str_map ==
  <<".", "c">> :> <<"/", "/", " ">> @@
  <<".", "c", "p", "p">> :> <<"/", "/", " ">> @@
  <<".", "h">> :> <<"/", "/", " ">> @@
  <<".", "h", "p", "p">> :> <<"/", "/", " ">> @@
  <<".", "p", "y">> :> <<"#", " ">> @@
  <<".", "j", "a", "v", "a">> :> <<"/", "/", " ">> @@
  <<".", "j", "s">> :> <<"/", "/", " ">> @@
  <<".", "t", "s">> :> <<"/", "/", " ">> @@
  <<".", "r", "b">> :> <<"#", " ">> @@
  <<".", "g", "o">> :> <<"/", "/", " ">> @@
  <<".", "r", "s">> :> <<"/", "/", " ">> @@
  <<".", "c", "s">> :> <<"/", "/", " ">> @@
  <<".", "p", "h", "p">> :> <<"/", "/", " ">> @@
  <<".", "s", "w", "i", "f", "t">> :> <<"/", "/", " ">> @@
  <<".", "k", "t">> :> <<"/", "/", " ">> @@
  <<".", "s", "c", "a", "l", "a">> :> <<"/", "/", " ">> @@
  <<".", "s", "h">> :> <<"#", " ">> @@
  <<".", "p", "l">> :> <<"#", " ">> @@
  <<".", "r">> :> <<"#", " ">> @@
  <<".", "l", "u", "a">> :> <<"-", "-", " ">> @@
  <<".", "s", "q", "l">> :> <<"-", "-", " ">> @@
  <<".", "a", "s", "m">> :> <<";", " ">> @@
  <<".", "s">> :> <<";", " ">> @@
  <<".", "v", "b">> :> <<"'", " ">> @@
  <<".", "v", "b", "a">> :> <<"'", " ">> @@
  <<".", "m">> :> <<"/", "/", " ">> @@
  <<".", "m", "m">> :> <<"/", "/", " ">> @@
  <<".", "e", "r", "l">> :> <<"%", " ">> @@
  <<".", "e", "x">> :> <<"#", " ">> @@
  <<".", "e", "x", "s">> :> <<"#", " ">> @@
  <<".", "h", "s">> :> <<"-", "-", " ">> @@
  <<".", "l", "i", "s", "p">> :> <<";", ";", " ">> @@
  <<".", "c", "l", "j">> :> <<";", ";", " ">> @@
  <<".", "s", "c", "m">> :> <<";", ";", " ">> @@
  <<".", "f", "9", "0">> :> <<"!">> @@
  <<".", "f", "9", "5">> :> <<"!">> @@
  <<".", "f", "0", "3">> :> <<"!">> @@
  <<".", "a", "d", "a">> :> <<"-", "-", " ">> @@
  <<".", "p", "a", "s">> :> <<"/", "/", " ">> @@
  <<".", "d", "a", "r", "t">> :> <<"/", "/", " ">> @@
  <<".", "c", "o", "f", "f", "e", "e">> :> <<"#", " ">> @@
  <<".", "g", "r", "o", "o", "v", "y">> :> <<"/", "/", " ">> @@
  <<".", "n", "i", "m">> :> <<"#", " ">> @@
  <<".", "r", "k", "t">> :> <<";", " ">> @@
  <<".", "v", "h", "d">> :> <<"-", "-", " ">> @@
  <<".", "v", "h", "d", "l">> :> <<"-", "-", " ">> @@
  <<".", "p", "r", "o">> :> <<"%", " ">> @@
  <<".", "s", "m", "l">> :> <<"(", "*", " ">> @@
  <<".", "m", "l">> :> <<"(", "*", " ">> @@
  <<".", "b", "a", "t">> :> <<"R", "E", "M", " ">> @@
  <<".", "p", "s", "1">> :> <<"#", " ">>

DefaultComment == <<"/", "/", " ">>

ALL == <<".", "a", "l", "l">>

\* main: the comment string for the file extension.
CommentStr(ext) ==
  IF ext \in DOMAIN comment_str_map THEN comment_str_map[ext] ELSE DefaultComment

\* main: file_extension = (dot_pos != npos) ? filename.substr(dot_pos) : "".
ExtensionOf(name) ==
  LET dot_pos == FindLastOf(name, ".")
  IN  IF dot_pos # npos THEN Substr(name, dot_pos, npos) ELSE <<>>

convert_option(option, fname, vmap, date) ==
  IF option = <<"<", "d", "a", "t", "e", ">">> THEN <<"D", "A", "T", "E", ":", " ">> \o date
  ELSE IF option = <<"<", "f", "i", "l", "e", ">">> THEN <<"F", "I", "L", "E", ":", " ">> \o fname
  ELSE IF option \in DOMAIN vmap THEN vmap[option]
  ELSE option

\* m[k] = v for a std::unordered_map (inserts k when absent).
MapPut(m, k, v) == [x \in (DOMAIN m) \cup {k} |-> IF x = k THEN v ELSE m[x]]

\* The parser's state as one record.
ParserState(ct, pre, raw, vm, tom, rc) ==
  [current_type |-> ct, is_prepend |-> pre, is_raw |-> raw,
   variable_map |-> vm, type_options_map |-> tom, raw_code |-> rc]

InitialParserState == ParserState(<<>>, FALSE, FALSE, <<>>, <<>>, <<>>)

\* ProcessSet without the removal of the surrounding quotes.
ProcessSetKeepQuotes(st, line) ==
  LET pos       == 4
      equal_pos == FindChar(line, "=", pos)
      var_name  == Trim(Substr(line, pos, equal_pos - pos))
      var_value == Trim(Substr(line, equal_pos + 1, npos))
  IN  IF equal_pos = npos
      THEN st
      ELSE [st EXCEPT !.variable_map =
                        MapPut(@, <<"<">> \o var_name \o <<">">>, var_value)]

\* ProcessSet without the check for a missing '=': equal_pos is npos, the name
\* is the rest of the line and the value is line.substr(npos + 1), the line.
ProcessSetUnchecked(st, line) ==
  LET pos       == 4
      equal_pos == FindChar(line, "=", pos)
      var_name  == Trim(Substr(line, pos, equal_pos - pos))
      value     == IF equal_pos = npos THEN line
                   ELSE Trim(Substr(line, equal_pos + 1, npos))
      var_value == IF value # <<>> /\ Head(value) = "\"" /\ value[Len(value)] = "\""
                   THEN Substr(value, 1, SizeSub(Len(value), 2))
                   ELSE value
  IN  [st EXCEPT !.variable_map =
                   MapPut(@, <<"<">> \o var_name \o <<">">>, var_value)]

\* The SET branch of the loop body, for a trimmed line that starts with "SET ".
ProcessSet(st, line) ==
  LET pos       == 4
      equal_pos == FindChar(line, "=", pos)
      var_name  == Trim(Substr(line, pos, equal_pos - pos))
      value     == Trim(Substr(line, equal_pos + 1, npos))
      var_value == IF value # <<>> /\ Head(value) = "\"" /\ value[Len(value)] = "\""
                   THEN Substr(value, 1, SizeSub(Len(value), 2))
                   ELSE value
  IN  IF equal_pos = npos
      THEN st
      ELSE [st EXCEPT !.variable_map =
                        MapPut(@, <<"<">> \o var_name \o <<">">>, var_value)]

\* ProcessType with the two flags reset only when the group is new.
ProcessTypeResetWhenNew(st, line) ==
  LET name == Substr(line, 6, SizeSub(Len(line), 7))
  IN  IF name \in DOMAIN st.type_options_map
      THEN [st EXCEPT !.current_type = name]
      ELSE [st EXCEPT !.current_type = name,
                      !.is_prepend = FALSE,
                      !.is_raw = FALSE,
                      !.type_options_map = MapPut(@, name, <<>>)]

\* The "<type " branch: the name is line.substr(6, line.size() - 7).
ProcessType(st, line) ==
  LET name == Substr(line, 6, SizeSub(Len(line), 7))
  IN  [st EXCEPT !.current_type = name,
                 !.is_prepend = FALSE,
                 !.is_raw = FALSE,
                 !.type_options_map =
                    IF name \in DOMAIN @ THEN @ ELSE MapPut(@, name, <<>>)]

\* The final else branch: any other line is an option of the current type.
ProcessOption(st, line, ext) ==
  IF st.current_type = <<>> THEN st
  ELSE IF st.is_raw /\ st.current_type = ext
  THEN [st EXCEPT !.raw_code = Append(@, line)]
  ELSE [st EXCEPT !.type_options_map =
                    MapPut(@, st.current_type,
                           Append((IF st.current_type \in DOMAIN @
                                   THEN @[st.current_type] ELSE <<>>),
                                  [identifier |-> line,
                                   is_prepend |-> st.is_prepend]))]

\* One iteration of the while loop of parse_config_file on the line getline
\* delivered.
ProcessLine(st, input, ext) ==
  LET line == Trim(input)
  IN  IF line = <<>> THEN st
      ELSE IF StartsWith(line, <<"S", "E", "T", " ">>) THEN ProcessSet(st, line)
      ELSE IF StartsWith(line, <<"<", "t", "y", "p", "e", " ">>) THEN ProcessType(st, line)
      ELSE IF StartsWith(line, <<"<", "p", "r", "e", "p", "e", "n", "d", ">">>) THEN [st EXCEPT !.is_prepend = TRUE]
      ELSE IF StartsWith(line, <<"<", "a", "p", "p", "e", "n", "d", ">">>) THEN [st EXCEPT !.is_prepend = FALSE]
      ELSE IF StartsWith(line, <<"<", "r", "a", "w", ">">>) THEN [st EXCEPT !.is_raw = TRUE]
      ELSE ProcessOption(st, line, ext)

\* parse_config_file on the lines of an opened file, from the state st.
RECURSIVE ParseAll(_, _, _)
ParseAll(st, lines, ext) ==
  IF lines = <<>> THEN st
  ELSE ParseAll(ProcessLine(st, Head(lines), ext), Tail(lines), ext)

\* main: the loop over type_options_map[file_extension] that fills
\* prepend_options and append_options, from option i on.
RECURSIVE GatherTyped(_, _, _, _)
GatherTyped(opts, i, pre, app) ==
  IF i > Len(opts) THEN [prepend_options |-> pre, append_options |-> app]
  ELSE IF opts[i].is_prepend
  THEN GatherTyped(opts, i + 1, Append(pre, opts[i].identifier), app)
  ELSE GatherTyped(opts, i + 1, pre, Append(app, opts[i].identifier))

\* main: the loop over type_options_map[".all"] that fills default_options.
RECURSIVE GatherDefault(_, _, _)
GatherDefault(opts, i, def) ==
  IF i > Len(opts) THEN def
  ELSE GatherDefault(opts, i + 1, Append(def, opts[i].identifier))

\* MergeOptions with the default options put first.
MergeOptionsDefaultFirst(tom, ext) ==
  LET typed == IF ext \in DOMAIN tom
               THEN GatherTyped(tom[ext], 1, <<>>, <<>>)
               ELSE [prepend_options |-> <<>>, append_options |-> <<>>]
      default_options == IF ALL \in DOMAIN tom
                         THEN GatherDefault(tom[ALL], 1, <<>>)
                         ELSE <<>>
  IN  default_options \o typed.prepend_options \o typed.append_options

\* main: gather the options for the extension and merge them.
MergeOptions(tom, ext) ==
  LET typed == IF ext \in DOMAIN tom
               THEN GatherTyped(tom[ext], 1, <<>>, <<>>)
               ELSE [prepend_options |-> <<>>, append_options |-> <<>>]
      default_options == IF ALL \in DOMAIN tom
                         THEN GatherDefault(tom[ALL], 1, <<>>)
                         ELSE <<>>
  IN  typed.prepend_options \o default_options \o typed.append_options

\* main: the loop that builds file_message from all_options, from option i on.
RECURSIVE BuildMessage(_, _, _, _, _, _, _)
BuildMessage(msg, opts, i, comment_str, fname, vmap, date) ==
  IF i > Len(opts) THEN msg
  ELSE BuildMessage(msg \o comment_str \o convert_option(opts[i], fname, vmap, date)
                        \o <<NL>>,
                    opts, i + 1, comment_str, fname, vmap, date)

\* AddRawLine writing the line without its quotes.
AddRawLineStripped(msg, line) ==
  LET trimmed == IF line # <<>> /\ (Head(line) = "\"" \/ Head(line) = "'")
                 THEN Substr(line, 1, SizeSub(Len(line), 2))
                 ELSE line
  IN  IF trimmed = <<"\\", "n">> THEN msg \o <<NL>> ELSE msg \o trimmed \o <<NL>>

\* main: one raw line added to file_message.
AddRawLine(msg, line) ==
  LET trimmed == IF line # <<>> /\ (Head(line) = "\"" \/ Head(line) = "'")
                 THEN Substr(line, 1, SizeSub(Len(line), 2))
                 ELSE line
  IN  IF trimmed = <<"\\", "n">> THEN msg \o <<NL>> ELSE msg \o line \o <<NL>>

RECURSIVE AddRawLines(_, _, _)
AddRawLines(msg, raw, i) ==
  IF i > Len(raw) THEN msg ELSE AddRawLines(AddRawLine(msg, raw[i]), raw, i + 1)

\* main: "Add raw code."
AddRawCode(msg, raw) ==
  IF raw # <<>> THEN AddRawLines(msg \o <<NL>>, raw, 1) ELSE msg

\* What fprintf leaves in a file opened with "w" (text mode): every line feed
\* is written as carriage return, line feed.
RECURSIVE TextModeBytes(_)
TextModeBytes(s) ==
  IF s = <<>> THEN <<>>
  ELSE (IF Head(s) = NL THEN <<"\r", NL>> ELSE <<Head(s)>>) \o TextModeBytes(Tail(s))

-----------------------------------------------------------------------------
(* scanf_s on the terminal input                                           *)

IsSpace(c) == c = " " \/ c = "\t" \/ c = NL \/ c = "\r"

\* Position of the first non-space character at or after p, or the length of
\* the input when only white space is left (end of input).
SkipSpace(s, p) ==
  LET hits == {i \in p..(Len(s) - 1) : ~IsSpace(s[i + 1])}
  IN  IF hits = {} THEN Len(s) ELSE CHOOSE i \in hits : \A j \in hits : i <= j

\* Position just after the run of non-space characters that starts at p.
TokenEnd(s, p) ==
  LET hits == {i \in p..(Len(s) - 1) : IsSpace(s[i + 1])}
  IN  IF hits = {} THEN Len(s) ELSE CHOOSE i \in hits : \A j \in hits : i <= j

\* Values an uninitialized char may hold when scanf_s assigned nothing.
UninitChars == {"y", "N"}

Open(file, mode, ok) == [file |-> file, mode |-> mode, ok |-> ok]

-----------------------------------------------------------------------------
(* The program                                                             *)

ProgramInit ==
  /\ pc = "args"
  /\ inpos = 0
  /\ filename = <<>>
  /\ file_extension = <<>>
  /\ lineno = 0
  /\ current_type = <<>>
  /\ is_prepend = FALSE
  /\ is_raw = FALSE
  /\ variable_map = <<>>
  /\ type_options_map = <<>>
  /\ raw_code = <<>>
  /\ all_options = <<>>
  /\ file_message = <<>>
  /\ exit_code = NoExit
  /\ opens = <<>>

\* main: argument dispatch.
Args ==
  /\ pc = "args"
  /\ IF Len(argv) = 0
     THEN /\ exit_code' = EXIT_FAILURE
          /\ pc' = "done"
          /\ UNCHANGED filename
     ELSE IF argv[1] = <<"-", "-", "v", "e", "r", "s", "i", "o", "n">> \/ argv[1] = <<"-", "-", "h", "e", "l", "p">>
     THEN /\ exit_code' = EXIT_SUCCESS
          /\ pc' = "done"
          /\ UNCHANGED filename
     ELSE /\ filename' = argv[1]
          /\ pc' = "probe"
          /\ UNCHANGED exit_code
  /\ UNCHANGED <<argv, stdin, inpos, today, tgt, cfg_exists, cfg_lines,
                 file_extension, lineno, parser_vars, all_options,
                 file_message, opens>>

\* main: "Check if file exists": fopen_s(&file, argv[1], "r").
Probe ==
  /\ pc = "probe"
  /\ \E ok \in (IF tgt.exists THEN BOOLEAN ELSE {FALSE}) :
       /\ opens' = Append(opens, Open("target", "r", ok))
       /\ pc' = IF ok THEN "confirm" ELSE "create"
  /\ UNCHANGED <<argv, stdin, inpos, today, tgt, cfg_exists, cfg_lines,
                 filename, file_extension, lineno, parser_vars, all_options,
                 file_message, exit_code>>

\* main: confirm_action("overwrite the file", "overwrite").
Confirm ==
  /\ pc = "confirm"
  /\ LET p1   == SkipSpace(stdin, inpos)
         eof1 == p1 >= Len(stdin)
         end1 == IF eof1 THEN Len(stdin) ELSE p1 + 1
         p2   == SkipSpace(stdin, end1)
         eof2 == p2 >= Len(stdin)
         end2 == TokenEnd(stdin, p2)
         confirmation == SubSeq(stdin, p2 + 1, end2)
     IN  \E response \in (IF eof1 THEN UninitChars ELSE {stdin[p1 + 1]}) :
           IF response = "y" \/ response = "Y"
           THEN \E equal \in (IF eof2 THEN BOOLEAN
                                      ELSE {confirmation = <<"o", "v", "e", "r", "w", "r", "i", "t", "e">>}) :
                  /\ inpos' = end2
                  /\ pc' = IF equal THEN "create" ELSE "done"
                  /\ exit_code' = IF equal THEN exit_code ELSE EXIT_FAILURE
           ELSE /\ inpos' = end1
                /\ pc' = "done"
                /\ exit_code' = EXIT_FAILURE
  /\ UNCHANGED <<argv, stdin, today, tgt, cfg_exists, cfg_lines, filename,
                 file_extension, lineno, parser_vars, all_options,
                 file_message, opens>>

\* main: fopen_s(&file, argv[1], "w"), the extension, fclose.
Create ==
  /\ pc = "create"
  /\ \E ok \in BOOLEAN :
       /\ opens' = Append(opens, Open("target", "w", ok))
       /\ IF ok
          THEN /\ tgt' = [exists |-> TRUE, content |-> <<>>]
               /\ file_extension' = ExtensionOf(filename)
               /\ pc' = "open_config"
               /\ UNCHANGED exit_code
          ELSE /\ exit_code' = EXIT_FAILURE
               /\ pc' = "done"
               /\ UNCHANGED <<tgt, file_extension>>
  /\ UNCHANGED <<argv, stdin, inpos, today, cfg_exists, cfg_lines, filename,
                 lineno, parser_vars, all_options, file_message>>

\* OpenConfig with a configuration that cannot be opened ending the program.
OpenConfigOrAbort ==
  /\ pc = "open_config"
  /\ \E ok \in (IF cfg_exists THEN BOOLEAN ELSE {FALSE}) :
       /\ opens' = Append(opens, Open("config", "r", ok))
       /\ pc' = IF ok THEN "parse" ELSE "done"
       /\ exit_code' = IF ok THEN exit_code ELSE EXIT_FAILURE
  /\ UNCHANGED <<argv, stdin, inpos, today, tgt, cfg_exists, cfg_lines,
                 filename, file_extension, lineno, parser_vars, all_options,
                 file_message>>

\* parse_config_file: std::ifstream file(filename); if (!file.is_open()) return.
OpenConfig ==
  /\ pc = "open_config"
  /\ \E ok \in (IF cfg_exists THEN BOOLEAN ELSE {FALSE}) :
       /\ opens' = Append(opens, Open("config", "r", ok))
       /\ pc' = IF ok THEN "parse" ELSE "gather"
  /\ UNCHANGED <<argv, stdin, inpos, today, tgt, cfg_exists, cfg_lines,
                 filename, file_extension, lineno, parser_vars, all_options,
                 file_message, exit_code>>

\* parse_config_file: one iteration of while (std::getline(file, line)).
ParseLine ==
  /\ pc = "parse"
  /\ lineno < Len(cfg_lines)
  /\ LET st == ProcessLine(ParserState(current_type, is_prepend, is_raw,
                                       variable_map, type_options_map, raw_code),
                           cfg_lines[lineno + 1], file_extension)
     IN  /\ current_type' = st.current_type
         /\ is_prepend' = st.is_prepend
         /\ is_raw' = st.is_raw
         /\ variable_map' = st.variable_map
         /\ type_options_map' = st.type_options_map
         /\ raw_code' = st.raw_code
  /\ lineno' = lineno + 1
  /\ UNCHANGED <<argv, stdin, inpos, today, tgt, cfg_exists, cfg_lines, pc,
                 filename, file_extension, all_options, file_message,
                 exit_code, opens>>

\* parse_config_file: getline fails at the end of the file and the loop ends.
ParseEnd ==
  /\ pc = "parse"
  /\ lineno = Len(cfg_lines)
  /\ pc' = "gather"
  /\ UNCHANGED <<argv, stdin, inpos, today, tgt, cfg_exists, cfg_lines,
                 filename, file_extension, lineno, parser_vars, all_options,
                 file_message, exit_code, opens>>

\* main: "Gather options based on file extension" and "Merge options".
Gather ==
  /\ pc = "gather"
  /\ all_options' = MergeOptions(type_options_map, file_extension)
  /\ pc' = "render_options"
  /\ UNCHANGED <<argv, stdin, inpos, today, tgt, cfg_exists, cfg_lines,
                 filename, file_extension, lineno, parser_vars, file_message,
                 exit_code, opens>>

\* main: "Build final file message."
RenderOptions ==
  /\ pc = "render_options"
  /\ file_message' = BuildMessage(<<>>, all_options, 1, CommentStr(file_extension),
                                  filename, variable_map, today)
  /\ pc' = "render_raw"
  /\ UNCHANGED <<argv, stdin, inpos, today, tgt, cfg_exists, cfg_lines,
                 filename, file_extension, lineno, parser_vars, all_options,
                 exit_code, opens>>

\* main: "Add raw code."
RenderRaw ==
  /\ pc = "render_raw"
  /\ file_message' = AddRawCode(file_message, raw_code)
  /\ pc' = "write"
  /\ UNCHANGED <<argv, stdin, inpos, today, tgt, cfg_exists, cfg_lines,
                 filename, file_extension, lineno, parser_vars, all_options,
                 exit_code, opens>>

\* WriteOut with a failed open tried again instead of ending the program.
WriteOutRetrying ==
  /\ pc = "write"
  /\ \E ok \in BOOLEAN :
       /\ opens' = Append(opens, Open("target", "w", ok))
       /\ IF ok
          THEN /\ tgt' = [exists |-> TRUE, content |-> TextModeBytes(file_message)]
               /\ exit_code' = EXIT_SUCCESS
               /\ pc' = "done"
          ELSE UNCHANGED <<tgt, exit_code, pc>>
  /\ UNCHANGED <<argv, stdin, inpos, today, cfg_exists, cfg_lines, filename,
                 file_extension, lineno, parser_vars, all_options, file_message>>

\* main: "Write the message to the file."
WriteOut ==
  /\ pc = "write"
  /\ \E ok \in BOOLEAN :
       /\ opens' = Append(opens, Open("target", "w", ok))
       /\ IF ok
          THEN /\ tgt' = [exists |-> TRUE, content |-> TextModeBytes(file_message)]
               /\ exit_code' = EXIT_SUCCESS
          ELSE /\ exit_code' = EXIT_FAILURE
               /\ UNCHANGED tgt
  /\ pc' = "done"
  /\ UNCHANGED <<argv, stdin, inpos, today, cfg_exists, cfg_lines, filename,
                 file_extension, lineno, parser_vars, all_options, file_message>>

Next ==
  \/ Args
  \/ Probe
  \/ Confirm
  \/ Create
  \/ OpenConfig
  \/ ParseLine
  \/ ParseEnd
  \/ Gather
  \/ RenderOptions
  \/ RenderRaw
  \/ WriteOut

-----------------------------------------------------------------------------
(* Inputs: command lines, terminal input, file-system states               *)

SeqsUpTo(V, n) == UNION {[1..k -> V] : k \in 0..n}

ConfigsOver(preambles, vocabulary) ==
  {p \o s : p \in preambles, s \in SeqsUpTo(vocabulary, MaxLines)}

SetLine(name, value) == <<"S", "E", "T", " ">> \o name \o <<" ", "=", " ">> \o value

TypeLine(name) == <<"<", "t", "y", "p", "e", " ">> \o name \o <<">">>

PY == <<".", "p", "y">>

JS == <<".", "j", "s">>

Dates == {<<"2", "0", "2", "5", "-", "0", "3", "-", "0", "1">>}

OldContent == <<"o", "l", "d">>

Absent == [exists |-> FALSE, content |-> <<>>]

Existing == [exists |-> TRUE, content |-> OldContent]

Filenames == {<<"a", ".", "p", "y">>, <<"a", ".", "a", "l", "l">>, <<"a">>, <<"a", ".", "z", "z">>, <<"b", ".", "t", "a", "r", ".", "j", "s">>}

CommandLines ==
  {<<>>, <<<<"-", "-", "v", "e", "r", "s", "i", "o", "n">>>>, <<<<"-", "-", "h", "e", "l", "p">>>>, <<<<"a", ".", "p", "y">>, <<"b", ".", "p", "y">>>>}
    \cup {<<f>> : f \in Filenames}

TerminalInputs ==
  {<<"y", "\n", "o", "v", "e", "r", "w", "r", "i", "t", "e", "\n">>, <<"Y", " ", "o", "v", "e", "r", "w", "r", "i", "t", "e", "\n">>, <<" ", "\n", " ", "y", " ", "\n", "\t", "o", "v", "e", "r", "w", "r", "i", "t", "e">>, <<"y", "o", "v", "e", "r", "w", "r", "i", "t", "e", "\n">>,
   <<"n", "\n">>, <<"\n">>, <<"y", "\n", "n", "o", "\n">>, <<"y", "\n", "o", "v", "e", "r", "w", "r", "i", "t", "e", "s", "\n">>, <<"y", "\n">>, <<>>}

\* A configuration that takes every branch of the parser's loop.
DemoConfig ==
  << <<"s", "t", "r", "a", "y">>,
     <<"S", "E", "T", " ", "b", "r", "o", "k", "e", "n">>,
     SetLine(<<"a", "u", "t", "h", "o", "r">>, <<"\"", "A", "l", "i", "c", "e", "\"">>),
     <<>>,
     TypeLine(ALL),
     <<"<", "f", "i", "l", "e", ">">>,
     TypeLine(PY),
     <<" ", " ", "<", "p", "r", "e", "p", "e", "n", "d", ">", " ", " ">>,
     <<"<", "d", "a", "t", "e", ">">>,
     <<"<", "a", "p", "p", "e", "n", "d", ">">>,
     <<"<", "a", "u", "t", "h", "o", "r", ">">>,
     <<"\t", "<", "r", "a", "w", ">">>,
     <<"i", "m", "p", "o", "r", "t", " ", "s", "y", "s">>,
     <<"\"", "\\", "n", "\"">>,
     TypeLine(JS),
     <<"<", "r", "a", "w", ">">>,
     <<"'", "u", "s", "e", " ", "s", "t", "r", "i", "c", "t", "'">> >>

\* Every command line, terminal input and target state, with no
\* configuration file, an empty one, or DemoConfig.
EnvIO ==
  /\ argv \in CommandLines
  /\ stdin \in TerminalInputs
  /\ today \in Dates
  /\ tgt \in {Absent, Existing}
  /\ \/ cfg_exists = FALSE /\ cfg_lines = <<>>
     \/ cfg_exists = TRUE /\ cfg_lines \in {<<>>, DemoConfig}

\* A new target file named f, for every configuration of cfgs.
EnvConfigs(files, cfgs) ==
  /\ argv \in {<<f>> : f \in files}
  /\ stdin = <<>>
  /\ today \in Dates
  /\ tgt = Absent
  /\ cfg_exists = TRUE
  /\ cfg_lines \in cfgs

\* Lines and configurations for the parser's handling of each kind of line.
ParseVocabulary ==
  {<<"S", "E", "T", " ", "b", "r", "o", "k", "e", "n">>, SetLine(<<"a">>, <<"1">>), <<"x">>, <<" ">>, TypeLine(PY), TypeLine(JS),
   <<"<", "p", "r", "e", "p", "e", "n", "d", ">">>, <<"\t", "<", "a", "p", "p", "e", "n", "d", ">", " ">>, <<"<", "r", "a", "w", ">">>}

\* Lines and configurations for the merge of the options.
MergeVocabulary ==
  {TypeLine(PY), TypeLine(ALL), <<"<", "p", "r", "e", "p", "e", "n", "d", ">">>, <<"<", "a", "p", "p", "e", "n", "d", ">">>, <<"<", "r", "a", "w", ">">>, <<"a">>, <<"b">>}

MergePreamble ==
  <<TypeLine(ALL), <<"<", "p", "r", "e", "p", "e", "n", "d", ">">>, <<"d">>, TypeLine(PY), <<"<", "p", "r", "e", "p", "e", "n", "d", ">">>, <<"p">>>>

\* Lines and configurations for SET and the substitution of placeholders.
SubstVocabulary ==
  {SetLine(<<"a", "u", "t", "h", "o", "r">>, <<"\"", "A", "l", "i", "c", "e", "\"">>), <<"S", "E", "T", " ", " ", "a", "u", "t", "h", "o", "r", "=", "B", "o", "b", " ">>, SetLine(<<"a", "u", "t", "h", "o", "r">>, <<"\"">>),
   TypeLine(PY), <<"<", "a", "u", "t", "h", "o", "r", ">">>, <<"a", "u", "t", "h", "o", "r", ":", " ", "<", "a", "u", "t", "h", "o", "r", ">">>}

\* The scenario of the specification's section 8.
ScenarioConfig ==
  <<TypeLine(PY), <<"<", "p", "r", "e", "p", "e", "n", "d", ">">>, <<"<", "d", "a", "t", "e", ">">>, TypeLine(PY), <<"<", "a", "p", "p", "e", "n", "d", ">">>,
    SetLine(<<"a", "u", "t", "h", "o", "r">>, <<"\"", "A", "l", "i", "c", "e", "\"">>), <<"a", "u", "t", "h", "o", "r", ":", " ", "<", "a", "u", "t", "h", "o", "r", ">">>>>

\* SET of the two built-in names.
BuiltinConfig ==
  <<SetLine(<<"d", "a", "t", "e">>, <<"n", "e", "v", "e", "r">>), SetLine(<<"f", "i", "l", "e">>, <<"n", "o", "n", "e">>), TypeLine(PY),
    <<"<", "d", "a", "t", "e", ">">>, <<"<", "f", "i", "l", "e", ">">>>>

\* Lines and configurations for raw code.
RawVocabulary ==
  {<<"\\", "n">>, <<"\"", "\\", "n", "\"">>, <<"'", "\\", "n", "x">>, <<"\"">>, <<"<", "d", "a", "t", "e", ">">>, <<"<", "v", ">">>}

RawPreambles ==
  {<<TypeLine(ALL), <<"<", "r", "a", "w", ">">>>>,
   <<SetLine(<<"v">>, <<"1">>), TypeLine(PY), <<"<", "v", ">">>, <<"<", "r", "a", "w", ">">>>>}

\* Lines and configurations with type groups of other extensions.
OtherTypesVocabulary ==
  {TypeLine(JS), TypeLine(<<>>), TypeLine(PY), <<"<", "r", "a", "w", ">">>, <<"<", "p", "r", "e", "p", "e", "n", "d", ">">>, <<"x">>}

Init == ProgramInit /\ EnvIO

Spec == Init /\ [][Next]_vars

InitParse ==
  ProgramInit /\ (EnvIO \/ EnvConfigs({<<"a", ".", "p", "y">>}, ConfigsOver({<<>>}, ParseVocabulary)))

SpecParse == InitParse /\ [][Next]_vars

InitMerge ==
  ProgramInit /\ (EnvIO \/ EnvConfigs({<<"a", ".", "p", "y">>, <<"a", ".", "a", "l", "l">>},
                                      ConfigsOver({<<>>, MergePreamble}, MergeVocabulary)))

SpecMerge == InitMerge /\ [][Next]_vars

InitSubst ==
  ProgramInit /\ (EnvIO \/ EnvConfigs({<<"a", ".", "p", "y">>},
                                      ConfigsOver({<<>>}, SubstVocabulary)
                                        \cup {ScenarioConfig, BuiltinConfig}))

SpecSubst == InitSubst /\ [][Next]_vars

InitRaw ==
  ProgramInit /\ (EnvIO \/ EnvConfigs({<<"a", ".", "p", "y">>, <<"a", ".", "a", "l", "l">>},
                                      ConfigsOver(RawPreambles, RawVocabulary)))

SpecRaw == InitRaw /\ [][Next]_vars

InitOtherTypes ==
  ProgramInit /\ (EnvIO \/ EnvConfigs({<<"a", ".", "p", "y">>},
                                      ConfigsOver({<<>>}, OtherTypesVocabulary)))

SpecOtherTypes == InitOtherTypes /\ [][Next]_vars

-----------------------------------------------------------------------------
(* File opens, overwrite confirmation, missing configuration               *)

OpenCount(file, mode) ==
  Cardinality({i \in 1..Len(opens) : opens[i].file = file /\ opens[i].mode = mode})

\* The terminal input answers the yes/no prompt with y or Y and then gives
\* the word overwrite.
Answered ==
  LET p1 == SkipSpace(stdin, 0)
      p2 == SkipSpace(stdin, p1 + 1)
  IN  /\ p1 < Len(stdin)
      /\ stdin[p1 + 1] \in {"y", "Y"}
      /\ SubSeq(stdin, p2 + 1, TokenEnd(stdin, p2)) = <<"o", "v", "e", "r", "w", "r", "i", "t", "e">>

\* This step opens the target for writing (and so truncates it).
OpensTargetForWriting ==
  /\ Len(opens') = Len(opens) + 1
  /\ opens'[Len(opens')] = Open("target", "w", TRUE)

\* C3 (as stated): a target that already exists is opened for writing only
\* after the user answered y/Y and then typed overwrite; on every other answer
\* the program ends with exit status 1 and the file's contents are unchanged.
C3_OverwriteOnlyWhenConfirmed ==
  [][/\ (tgt = Existing /\ OpensTargetForWriting) => Answered
     /\ (pc = "confirm" /\ ~Answered) =>
          (pc' = "done" /\ exit_code' = EXIT_FAILURE /\ tgt' = tgt)]_vars

\* The configuration file is missing, empty, or could not be opened.
ConfigUnavailable ==
  \/ ~cfg_exists
  \/ cfg_lines = <<>>
  \/ \E i \in 1..Len(opens) : opens[i] = Open("config", "r", FALSE)

ConfigTried == \E i \in 1..Len(opens) : opens[i].file = "config"

\* The target was opened for writing and no such open failed.
WriteOpensSucceeded ==
  /\ \E i \in 1..Len(opens) : opens[i].mode = "w"
  /\ \A i \in 1..Len(opens) : opens[i].mode = "w" => opens[i].ok

\* C5: with a missing, unreadable or empty configuration file the parser
\* leaves variables, type groups and raw lines empty, the rendered text is
\* empty for every filename, and a run whose opens of the target for writing
\* succeed ends with exit status 0 and an empty target file.
C5_EmptyConfigGivesEmptyFile ==
  (ConfigUnavailable /\ ConfigTried) =>
    /\ variable_map = <<>> /\ type_options_map = <<>> /\ raw_code = <<>>
    /\ all_options = <<>> /\ file_message = <<>>
    /\ (pc = "done" /\ WriteOpensSucceeded) =>
         (exit_code = EXIT_SUCCESS /\ tgt = [exists |-> TRUE, content |-> <<>>])

\* C5 witness: a run without configuration file that replaced an existing
\* target by an empty file and returned 0.
C5_Witness ==
  /\ pc = "done" /\ ~cfg_exists /\ ConfigTried /\ WriteOpensSucceeded
  /\ exit_code = EXIT_SUCCESS /\ tgt.content = <<>> /\ Answered

\* C9 (as stated): at most two file opens in a run, one read of the
\* configuration and one creation of the target.
C9_AtMostTwoOpens ==
  /\ Len(opens) <= 2
  /\ OpenCount("config", "r") <= 1
  /\ OpenCount("target", "r") + OpenCount("target", "w") <= 1

\* C9 (amended): at most four file opens in a run: at most one read-open of
\* the configuration, at most one read-open of the target (the existence
\* probe) and at most two write-opens of the target.
C9_AtMostFourOpens ==
  /\ Len(opens) <= 4
  /\ OpenCount("config", "r") <= 1
  /\ OpenCount("target", "r") <= 1
  /\ OpenCount("target", "w") <= 2
  /\ OpenCount("config", "w") = 0

\* C9 witness: a finished run that performed four successful opens.
C9_Witness ==
  /\ pc = "done" /\ Len(opens) = 4
  /\ \A i \in 1..4 : opens[i].ok

-----------------------------------------------------------------------------
(* Reading a configuration as the specification describes it               *)

Range(f) == {f[i] : i \in DOMAIN f}

\* Every line of every configuration.
Lines ==
  UNION {ParseVocabulary, MergeVocabulary, SubstVocabulary, RawVocabulary,
         OtherTypesVocabulary, Range(DemoConfig), Range(MergePreamble),
         Range(ScenarioConfig), Range(BuiltinConfig),
         UNION {Range(p) : p \in RawPreambles}}

\* The kind of a line: the first of the directive prefixes its trimmed text
\* starts with, in the order of the specification's section 4.1.
KindOf(l) ==
  LET t == Trim(l)
  IN  IF t = <<>> THEN "blank"
      ELSE IF StartsWith(t, <<"S", "E", "T", " ">>) THEN "set"
      ELSE IF StartsWith(t, <<"<", "t", "y", "p", "e", " ">>) THEN "type"
      ELSE IF StartsWith(t, <<"<", "p", "r", "e", "p", "e", "n", "d", ">">>) THEN "prepend"
      ELSE IF StartsWith(t, <<"<", "a", "p", "p", "e", "n", "d", ">">>) THEN "append"
      ELSE IF StartsWith(t, <<"<", "r", "a", "w", ">">>) THEN "raw"
      ELSE "option"

Kind == [l \in Lines |-> KindOf(l)]

TrimmedLine == [l \in Lines |-> Trim(l)]

IsBlankLine(l) == Kind[l] = "blank"

IsSetLine(l) == Kind[l] = "set"

IsTypeLine(l) == Kind[l] = "type"

IsPrependLine(l) == Kind[l] = "prepend"

IsAppendLine(l) == Kind[l] = "append"

IsRawLine(l) == Kind[l] = "raw"

IsOptionLine(l) == Kind[l] = "option"

\* A SET line without '='.
IsMalformedSet(l) == IsSetLine(l) /\ \A i \in 1..Len(l) : l[i] # "="

\* The text between "<type " and the last character of the line.
TypeNameOf(l) == SubSeq(TrimmedLine[l], 7, Len(TrimmedLine[l]) - 1)

Max(S) == CHOOSE m \in S : \A x \in S : x <= m

Min(S) == CHOOSE m \in S : \A x \in S : m <= x

\* Index of the last <type ...> line of c before line j, 0 when there is none.
LastTypeBefore(c, j) ==
  Max({0} \cup {t \in 1..(j - 1) : IsTypeLine(c[t])})

\* Line j of c comes after a <prepend> that no <append> or <type> follows.
PrependAt(c, j) ==
  LET t == LastTypeBefore(c, j)
      m == {k \in (t + 1)..(j - 1) : IsPrependLine(c[k]) \/ IsAppendLine(c[k])}
  IN  m # {} /\ IsPrependLine(c[Max(m)])

\* Line j of c comes after a <raw> that no <type> follows.
RawAt(c, j) ==
  \E k \in (LastTypeBefore(c, j) + 1)..(j - 1) : IsRawLine(c[k])

\* Line j of c is an option line of type group X.
OptionOf(c, j, X) ==
  /\ IsOptionLine(c[j])
  /\ LastTypeBefore(c, j) # 0
  /\ TypeNameOf(c[LastTypeBefore(c, j)]) = X

\* Line j of c is rejected: a malformed SET, or an option line that no
\* <type ...> line precedes.
RejectedAt(c, j) ==
  \/ IsMalformedSet(c[j])
  \/ IsOptionLine(c[j]) /\ LastTypeBefore(c, j) = 0

RECURSIVE Ascending(_)
Ascending(J) ==
  IF J = {} THEN <<>> ELSE <<Min(J)>> \o Ascending(J \ {Min(J)})

\* The lines of c whose index is in J, in file order.
LinesAt(c, J) ==
  LET order == Ascending(J) IN [i \in 1..Len(order) |-> c[order[i]]]

\* The configuration file was opened, so the parser read its lines.
ConfigOpened == \E i \in 1..Len(opens) : opens[i] = Open("config", "r", TRUE)

\* parse_config_file has returned.
AfterParse == pc \in {"gather", "render_options", "render_raw", "write", "done"}

\* The parser's variables as one record.
Parser == ParserState(current_type, is_prepend, is_raw, variable_map,
                      type_options_map, raw_code)

-----------------------------------------------------------------------------
(* The parser: rejected lines and mode flags                               *)

\* The line a ParseLine step consumes.
ThisLine == cfg_lines[lineno + 1]

ReadsLine == pc = "parse" /\ lineno' = lineno + 1

\* C4: a SET line without '=' and an option line met before any <type ...>
\* line change nothing in the parser (variables, type groups, raw lines,
\* current type, both flags), parsing goes on with the next line, and the
\* parse ends in the state it reaches on the file without the rejected lines.
C4_RejectedLinesChangeNothing ==
  [][/\ (ReadsLine /\ RejectedAt(cfg_lines, lineno + 1)) =>
          (UNCHANGED parser_vars /\ pc' = "parse")
     /\ (pc = "parse" /\ pc' = "gather") =>
          Parser = ParseAll(InitialParserState,
                            LinesAt(cfg_lines,
                                    {j \in 1..Len(cfg_lines) : ~RejectedAt(cfg_lines, j)}),
                            file_extension)]_vars

\* C4 witness: the parser went past a malformed SET and a stray option line
\* and then stored a variable and an option from later lines.
C4_Witness ==
  /\ pc = "gather"
  /\ \E i, j \in 1..Len(cfg_lines) :
       /\ IsMalformedSet(cfg_lines[i])
       /\ IsOptionLine(cfg_lines[j]) /\ LastTypeBefore(cfg_lines, j) = 0
  /\ variable_map # <<>>
  /\ \E X \in DOMAIN type_options_map : type_options_map[X] # <<>>

\* C7: a <type X> line sets prepend and raw to false, also for a group that
\* exists, whose options are kept; <prepend> and <append> set only the prepend
\* flag; <raw> sets raw, which stays set until the next <type ...> line; every
\* other line leaves the current type and both flags as they are.
C7_FlagsFollowDirectives ==
  [][ReadsLine =>
       /\ IsTypeLine(ThisLine) =>
            /\ current_type' = TypeNameOf(ThisLine)
            /\ ~is_prepend' /\ ~is_raw'
            /\ \A X \in DOMAIN type_options_map :
                 X \in DOMAIN type_options_map' /\ type_options_map'[X] = type_options_map[X]
       /\ IsPrependLine(ThisLine) =>
            (is_prepend' /\ UNCHANGED <<current_type, is_raw>>)
       /\ IsAppendLine(ThisLine) =>
            (~is_prepend' /\ UNCHANGED <<current_type, is_raw>>)
       /\ IsRawLine(ThisLine) =>
            (is_raw' /\ UNCHANGED <<current_type, is_prepend>>)
       /\ (IsBlankLine(ThisLine) \/ IsSetLine(ThisLine) \/ IsOptionLine(ThisLine)) =>
            UNCHANGED <<current_type, is_prepend, is_raw>>
       /\ (is_raw /\ ~IsTypeLine(ThisLine)) => is_raw']_vars

\* C7 witness: a <type X> line that reopened a group holding options, right
\* after a <raw> line, left both flags false.
C7_Witness ==
  /\ pc = "parse" /\ lineno >= 4
  /\ IsTypeLine(cfg_lines[lineno])
  /\ IsRawLine(cfg_lines[lineno - 1])
  /\ type_options_map[current_type] # <<>>
  /\ ~is_prepend /\ ~is_raw

-----------------------------------------------------------------------------
(* The merge of the options                                                *)

\* The lines the parser read: none when the file could not be opened.
LinesRead == IF ConfigOpened THEN cfg_lines ELSE <<>>

\* Line j of c is stored as an option of group X for the target extension ext:
\* an option line of X that is not captured as raw code.
StoredAt(c, j, X, ext) == OptionOf(c, j, X) /\ ~(RawAt(c, j) /\ X = ext)

Trimmed(lines) == [i \in 1..Len(lines) |-> TrimmedLine[lines[i]]]

Identifiers(opts) == [i \in 1..Len(opts) |-> opts[i].identifier]

TaggedPrepend(o) == o.is_prepend

TaggedAppend(o) == ~o.is_prepend

GroupOf(X) == IF X \in DOMAIN type_options_map THEN type_options_map[X] ELSE <<>>

Merged == pc \in {"render_options", "render_raw", "write", "done"}

\* C2: with N prepend and M append options in the target extension's group and
\* K options in .all, the merged sequence has N+M+K entries: the prepend
\* options in insertion order, then every .all option in insertion order
\* whatever its tag, then the append options in insertion order; each list
\* holds the option lines of all sessions of its group in file order (the
\* file-order part is stated for a non-empty target extension: no option is
\* ever stored under the empty type name).
C2_MergeOrder ==
  Merged =>
    LET c   == LinesRead
        ext == file_extension
        J   == 1..Len(c)
        N   == Len(SelectSeq(GroupOf(ext), TaggedPrepend))
        M   == Len(SelectSeq(GroupOf(ext), TaggedAppend))
        K   == Len(GroupOf(ALL))
    IN  /\ Len(all_options) = N + M + K
        /\ all_options = Identifiers(SelectSeq(GroupOf(ext), TaggedPrepend))
                           \o Identifiers(GroupOf(ALL))
                           \o Identifiers(SelectSeq(GroupOf(ext), TaggedAppend))
        /\ (pc = "render_options" /\ ext # <<>>) =>
             all_options =
               Trimmed(LinesAt(c, {j \in J : StoredAt(c, j, ext, ext) /\ PrependAt(c, j)}))
                 \o Trimmed(LinesAt(c, {j \in J : StoredAt(c, j, ALL, ext)}))
                 \o Trimmed(LinesAt(c, {j \in J : StoredAt(c, j, ext, ext) /\ ~PrependAt(c, j)}))

\* C2 witness: a finished run for .py whose group was filled in two sessions
\* and holds prepend and append options, with .all holding an option tagged
\* prepend, merged into prepend, .all, append.
C2_Witness ==
  /\ pc = "done" /\ file_extension = PY
  /\ all_options = <<<<"p">>, <<"d">>, <<"a">>, <<"b">>>>
  /\ \E i \in 1..Len(GroupOf(ALL)) : GroupOf(ALL)[i].is_prepend
  /\ Cardinality({j \in 1..Len(cfg_lines) : IsTypeLine(cfg_lines[j])
                                             /\ TypeNameOf(cfg_lines[j]) = PY}) = 2

-----------------------------------------------------------------------------
(* SET and the substitution of placeholders                                *)

VariableNames == {<<"a", "u", "t", "h", "o", "r">>, <<"d", "a", "t", "e">>, <<"f", "i", "l", "e">>, <<"v">>, <<"a">>}

BuiltinNames == {<<"d", "a", "t", "e">>, <<"f", "i", "l", "e">>}

WrittenValues == {<<"\"", "A", "l", "i", "c", "e", "\"">>, <<"B", "o", "b">>, <<"\"">>, <<"n", "e", "v", "e", "r">>, <<"n", "o", "n", "e">>, <<"1">>}

\* The ways the configurations write SET name = value.
SetForms(n, v) == {SetLine(n, v), <<"S", "E", "T", " ", " ">> \o n \o <<"=">> \o v \o <<" ">>}

Placeholder(n) == <<"<">> \o n \o <<">">>

\* A value with its first and last character removed when it starts and ends
\* with a double quote.
Unquoted(v) ==
  IF v # <<>> /\ v[1] = "\"" /\ v[Len(v)] = "\"" THEN SubSeq(v, 2, Len(v) - 1) ELSE v

\* Line i of c is the last SET line for n and gives it the written value v.
LastSetAt(c, i, n, v) ==
  /\ c[i] \in SetForms(n, v)
  /\ \A k \in (i + 1)..Len(c) : \A w \in WrittenValues : c[k] \notin SetForms(n, w)

\* Position of the first occurrence of key in text, 0 when there is none.
Occurrence(text, key) ==
  Min({p \in 1..(Len(text) - Len(key) + 1) : SubSeq(text, p, p + Len(key) - 1) = key}
        \cup {Len(text) + 1}) % (Len(text) + 1)

\* text with its first occurrence of key replaced by value.
Substituted(text, key, value) ==
  LET p == Occurrence(text, key)
  IN  IF p = 0 THEN text
      ELSE SubSeq(text, 1, p - 1) \o value \o SubSeq(text, p + Len(key), Len(text))

\* The lines of a text in which every line ends with a line feed.
RECURSIVE SplitLines(_, _)
SplitLines(text, line) ==
  IF text = <<>> THEN <<>>
  ELSE IF Head(text) = NL THEN <<line>> \o SplitLines(Tail(text), <<>>)
  ELSE SplitLines(Tail(text), Append(line, Head(text)))

\* The option lines have been rendered and nothing else yet.
OptionsRendered == pc = "render_raw" /\ ConfigOpened

\* Line j is an option line stored for the target extension or for .all.
RenderedAt(c, j) ==
  StoredAt(c, j, file_extension, file_extension) \/ StoredAt(c, j, ALL, file_extension)

\* C1 (as stated): when a well-formed SET name = value line is followed by an
\* option line of the target extension or of .all that contains <name>
\* anywhere in its text, the line rendered for that option has value, one pair
\* of double quotes stripped, in the place of <name>; the scenario of the
\* specification renders "# DATE: <today>" and then "# author: Alice".
C1_SubstitutedAnywhere ==
  OptionsRendered =>
    LET c        == cfg_lines
        rendered == SplitLines(file_message, <<>>)
        comment  == CommentStr(file_extension)
    IN  /\ \A i, j \in 1..Len(c) : \A n \in VariableNames \ BuiltinNames :
             \A v \in WrittenValues :
               (i < j /\ LastSetAt(c, i, n, v) /\ RenderedAt(c, j)
                  /\ Occurrence(TrimmedLine[c[j]], Placeholder(n)) # 0) =>
                 \E k \in 1..Len(all_options) :
                   /\ all_options[k] = TrimmedLine[c[j]]
                   /\ rendered[k] = comment \o Substituted(all_options[k], Placeholder(n),
                                                           Unquoted(v))
        /\ c = ScenarioConfig =>
             rendered = <<<<"#", " ", "D", "A", "T", "E", ":", " ">> \o today, <<"#", " ", "a", "u", "t", "h", "o", "r", ":", " ", "A", "l", "i", "c", "e">>>>

\* C1 (amended): an option line of the target extension or of .all whose whole
\* trimmed text is <name>, for a name other than date and file, is rendered as
\* the comment prefix followed by the value of the last well-formed SET line
\* for name in the file, its first and last character removed when it starts
\* and ends with a double quote; an option line that only contains <name>
\* within other text is rendered unchanged, so the scenario of the
\* specification renders "# DATE: <today>" and then "# author: <author>".
C1_SubstitutedWhenWhole ==
  OptionsRendered =>
    LET c        == cfg_lines
        rendered == SplitLines(file_message, <<>>)
        comment  == CommentStr(file_extension)
    IN  /\ Len(rendered) = Len(all_options)
        /\ \A j \in 1..Len(c) :
             RenderedAt(c, j) =>
               \E k \in 1..Len(all_options) : all_options[k] = TrimmedLine[c[j]]
        /\ \A i \in 1..Len(c) : \A n \in VariableNames \ BuiltinNames :
             \A v \in WrittenValues :
               LastSetAt(c, i, n, v) =>
                 \A k \in 1..Len(all_options) :
                   /\ all_options[k] = Placeholder(n) =>
                        rendered[k] = comment \o Unquoted(v)
                   /\ (all_options[k] # Placeholder(n)
                         /\ Occurrence(all_options[k], Placeholder(n)) # 0) =>
                        rendered[k] = comment \o all_options[k]
        /\ c = ScenarioConfig =>
             rendered = <<<<"#", " ", "D", "A", "T", "E", ":", " ">> \o today, <<"#", " ", "a", "u", "t", "h", "o", "r", ":", " ", "<", "a", "u", "t", "h", "o", "r", ">">>>>

\* C1 witness: SET author = "Alice" followed by the option lines <author> and
\* author: <author> for .py gave "# Alice" and "# author: <author>".
C1_Witness ==
  /\ pc = "done"
  /\ cfg_lines = <<SetLine(<<"a", "u", "t", "h", "o", "r">>, <<"\"", "A", "l", "i", "c", "e", "\"">>), TypeLine(PY), <<"<", "a", "u", "t", "h", "o", "r", ">">>,
                   <<"a", "u", "t", "h", "o", "r", ":", " ", "<", "a", "u", "t", "h", "o", "r", ">">>>>
  /\ file_message = <<"#", " ", "A", "l", "i", "c", "e", "\n", "#", " ", "a", "u", "t", "h", "o", "r", ":", " ", "<", "a", "u", "t", "h", "o", "r", ">", "\n">>

-----------------------------------------------------------------------------
(* Raw code                                                                *)

\* What one raw line contributes: a blank line when the line, its first and
\* last character removed if it starts with a quote, is backslash n; the line
\* itself and a line feed otherwise.
RawLineText(l) ==
  LET stripped == IF l[1] = "\"" \/ l[1] = "'" THEN SubSeq(l, 2, Len(l) - 1) ELSE l
  IN  IF stripped = <<"\\", "n">> THEN <<NL>> ELSE l \o <<NL>>

RECURSIVE RawLinesText(_)
RawLinesText(raw) ==
  IF raw = <<>> THEN <<>> ELSE RawLineText(Head(raw)) \o RawLinesText(Tail(raw))

RawBlock(raw) == IF raw = <<>> THEN <<>> ELSE <<NL>> \o RawLinesText(raw)

\* The option lines of the target extension's group met in raw mode.
RawLinesOf(c, ext) ==
  Trimmed(LinesAt(c, {j \in 1..Len(c) : OptionOf(c, j, ext) /\ RawAt(c, j)}))

\* C8: after the option lines nothing is emitted when there are no raw lines;
\* otherwise one blank line and then, for each raw line in capture order, a
\* blank line when the line (first and last character removed if it starts
\* with a quote) is backslash n, else the line as captured and a line feed,
\* without comment prefix and without substitution; the raw lines are the
\* option lines met in raw mode under the target extension (non-empty).
C8_RawBlock ==
  [][pc = "render_raw" =>
       /\ file_message' = file_message \o RawBlock(raw_code)
       /\ ConfigOpened =>
            (file_extension # <<>> => raw_code = RawLinesOf(cfg_lines, file_extension))]_vars

\* C8 witness: the raw lines "\n" in quotes, a lone quote, <v> and '\nx after
\* the option <v> of a .py target were written as the option line, a blank
\* line, a blank line, the quote, <v> and a blank line.
C8_Witness ==
  /\ pc = "write"
  /\ raw_code = <<<<"\"", "\\", "n", "\"">>, <<"\"">>, <<"<", "v", ">">>, <<"'", "\\", "n", "x">>>>
  /\ file_message = <<"#", " ", "1", "\n", "\n", "\n", "\"", "\n", "<", "v", ">", "\n", "\n">>

\* C6 (as stated): for a configuration whose only type block is <type .all>
\* followed by <raw> and further lines, and any target extension derived from
\* a filename, no raw line is captured and the output has no raw block.
C6_NoRawForAllGroup ==
  (AfterParse /\ ConfigOpened /\ Len(cfg_lines) >= 2
     /\ cfg_lines[1] = TypeLine(ALL) /\ IsRawLine(cfg_lines[2])
     /\ \A j \in 2..Len(cfg_lines) : ~IsTypeLine(cfg_lines[j])) =>
    /\ raw_code = <<>>
    /\ pc \in {"write", "done"} =>
         Len(SplitLines(file_message, <<>>)) = Len(all_options)

-----------------------------------------------------------------------------
(* Type groups of other extensions                                         *)

\* Line j of c is an option line under a type group that is neither the
\* target extension's nor .all.
OtherGroupAt(c, j, ext) ==
  /\ IsOptionLine(c[j])
  /\ LastTypeBefore(c, j) # 0
  /\ TypeNameOf(c[LastTypeBefore(c, j)]) \notin {ext, ALL}

\* The options a group holds when every option line under it was stored with
\* the prepend/append mode in force.
OptionsOf(c, X) ==
  LET order == Ascending({j \in 1..Len(c) : OptionOf(c, j, X)})
  IN  [i \in 1..Len(order) |->
         [identifier |-> TrimmedLine[c[order[i]]], is_prepend |-> PrependAt(c, order[i])]]

\* What the program writes for the configuration lines c.
MessageFor(c, ext, fname, date) ==
  LET st == ParseAll(InitialParserState, c, ext)
  IN  AddRawCode(BuildMessage(<<>>, MergeOptions(st.type_options_map, ext), 1,
                              CommentStr(ext), fname, st.variable_map, date),
                 st.raw_code)

\* C10 (as stated): option lines under type groups other than the target
\* extension's and .all, in raw mode or not, do not change the output, never
\* enter the raw lines, and are stored as options of their own group.
C10_OtherTypesIsolated ==
  (AfterParse /\ ConfigOpened) =>
    LET c   == cfg_lines
        ext == file_extension
        J   == 1..Len(c)
    IN  /\ pc = "write" =>
             file_message = MessageFor(LinesAt(c, {j \in J : ~OtherGroupAt(c, j, ext)}),
                                       ext, filename, today)
        /\ raw_code = RawLinesOf(c, ext)
        /\ \A j \in J :
             OtherGroupAt(c, j, ext) =>
               LET X == TypeNameOf(c[LastTypeBefore(c, j)])
               IN  X \in DOMAIN type_options_map /\ type_options_map[X] = OptionsOf(c, X)

=============================================================================
